---- MODULE Spec2Model ----
(***************************************************************************)
(* Sliding-tile puzzle engine and stage sequencing of the Valentine        *)
(* greeting: components ValentineExperience ("VE") and SlidingPuzzle       *)
(* ("SP").  A tile array is a sequence of records [id, currentPosition];   *)
(* array index k of the source is element k+1 of the sequence.             *)
(***************************************************************************)
EXTENDS Integers, Sequences, FiniteSets, TLC

VARIABLES
  component,       \* which component is mounted: "VE" or "SP"
  gridSize,        \* prop gridSize
  mounted,         \* the mount effect (useEffect(..., [])) has run
  tiles,           \* useState<Tile[]>([])
  isSolved,        \* useState(false)
  stage,           \* VE: useState<Stage>('envelope')
  envelopeOpened,  \* VE: useState(false)
  noClickCount,    \* VE: useState(0)
  timers,          \* VE: pending setTimeout(..., 1000) callbacks, oldest first
  moves,           \* SP: useState(0)
  hasStarted,      \* SP: useState(false)
  pc,              \* "idle", or the handler position inside initializePuzzle
  caller,          \* the handler that called initializePuzzle
  shuffled,        \* shufflePuzzle: local array
  blankPos,        \* shufflePuzzle: local blankPos
  i,               \* shufflePuzzle: loop counter
  last,            \* history: the last handler run and the state it started from
  arg,             \* getValidMoves called on its own: <<position, gridSize>>
  ret,             \* getValidMoves called on its own: the returned list
  acceptedMoves    \* history (SP): accepted moves counted since the last
                   \* initializePuzzle and since the last of that and handleReset

vars == <<component, gridSize, mounted, tiles, isSolved, stage, envelopeOpened,
          noClickCount, timers, moves, hasStarted, pc, caller, shuffled,
          blankPos, i, last, arg, ret, acceptedMoves>>

(* ------------------------------ bounds --------------------------------- *)
MaxPendingTimers == 2   \* envelope clicks are cut off at this many pending timers
MaxMoves == 4           \* SP tile clicks are cut off when moves reaches this
MaxNoClicks == 2        \* No clicks are cut off when noClickCount reaches this
MaxMovesGrid == 5       \* grid sizes 2..MaxMovesGrid for getValidMoves alone

\* The grid sizes of the component specification.  The 2 x 2 grid has 12
\* boards a shuffle can reach; the 3 x 3 grid has 181440, each met at about
\* half of the 100 iterations of every shuffle, which is beyond enumeration.
GridSizes == {2}

(* ------------------------- program constants --------------------------- *)
\* faulty variant: the loop test is i <= 100
ShuffleStepsOneMore == 100 + 1

\* for (let i = 0; i < 100; i++)
ShuffleSteps == 100

(* ----------------------------- helpers --------------------------------- *)
totalTiles == gridSize * gridSize
blankTileId == totalTiles - 1

Range(s) == {s[k] : k \in 1..Len(s)}

\* Array.prototype.includes
includes(s, x) == \E k \in 1..Len(s) : s[k] = x

\* Array.prototype.findIndex(t => t.currentPosition === pos): 0-based, -1 if none
findIndex(arr, pos) ==
  IF \E k \in 1..Len(arr) : arr[k].currentPosition = pos
  THEN (CHOOSE k \in 1..Len(arr) :
          /\ arr[k].currentPosition = pos
          /\ \A j \in 1..(k-1) : arr[j].currentPosition # pos) - 1
  ELSE -1

\* Array.prototype.find(t => t.id === id); the source asserts it is found
find(arr, id) ==
  arr[CHOOSE k \in 1..Len(arr) :
        /\ arr[k].id = id
        /\ \A j \in 1..(k-1) : arr[j].id # id]

\* Array.from({length: totalTiles}, (_, i) => ({id: i, currentPosition: i}))
initialTiles ==
  [k \in 1..totalTiles |-> [id |-> k - 1, currentPosition |-> k - 1]]

\* faulty variant: the upper neighbour is taken in the first row too
getValidMovesUpAlways(position, N) ==
  LET row == position \div N
      col == position % N
      up == IF row >= 0 THEN <<position - N>> ELSE <<>>
      down == IF row < N - 1 THEN <<position + N>> ELSE <<>>
      left == IF col > 0 THEN <<position - 1>> ELSE <<>>
      right == IF col < N - 1 THEN <<position + 1>> ELSE <<>>
  IN up \o down \o left \o right

\* faulty variant: the right-hand neighbour is taken without the column test
getValidMovesWrap(position, N) ==
  LET row == position \div N
      col == position % N
      up == IF row > 0 THEN <<position - N>> ELSE <<>>
      down == IF row < N - 1 THEN <<position + N>> ELSE <<>>
      left == IF col > 0 THEN <<position - 1>> ELSE <<>>
      right == IF position + 1 < N * N THEN <<position + 1>> ELSE <<>>
  IN up \o down \o left \o right

getValidMoves(position, N) ==
  LET row == position \div N
      col == position % N
      up == IF row > 0 THEN <<position - N>> ELSE <<>>
      down == IF row < N - 1 THEN <<position + N>> ELSE <<>>
      left == IF col > 0 THEN <<position - 1>> ELSE <<>>
      right == IF col < N - 1 THEN <<position + 1>> ELSE <<>>
  IN up \o down \o left \o right

\* currentTiles.every(tile => tile.id === tile.currentPosition)
every(currentTiles) ==
  \A k \in 1..Len(currentTiles) : currentTiles[k].id = currentTiles[k].currentPosition

\* faulty variant: the two tiles exchange their ids, not their cells
swapTilesIds(ts, clickedTile, blankTile) ==
  [k \in 1..Len(ts) |->
     IF ts[k].id = clickedTile.id
     THEN [ts[k] EXCEPT !.id = blankTile.id]
     ELSE IF ts[k].id = blankTileId
          THEN [ts[k] EXCEPT !.id = clickedTile.id]
          ELSE ts[k]]

\* faulty variant: the clicked tile moves and the blank stays where it is
swapTilesBlankStays(ts, clickedTile, blankTile) ==
  [k \in 1..Len(ts) |->
     IF ts[k].id = clickedTile.id
     THEN [ts[k] EXCEPT !.currentPosition = blankTile.currentPosition]
     ELSE ts[k]]

\* faulty variant: the clicked tile is sent to the blank's id, not to the blank's cell
swapTilesToBlankId(ts, clickedTile, blankTile) ==
  [k \in 1..Len(ts) |->
     IF ts[k].id = clickedTile.id
     THEN [ts[k] EXCEPT !.currentPosition = blankTile.id]
     ELSE IF ts[k].id = blankTileId
          THEN [ts[k] EXCEPT !.currentPosition = clickedTile.currentPosition]
          ELSE ts[k]]

\* tiles.map(...) of handleTileClick
swapTiles(ts, clickedTile, blankTile) ==
  [k \in 1..Len(ts) |->
     IF ts[k].id = clickedTile.id
     THEN [ts[k] EXCEPT !.currentPosition = blankTile.currentPosition]
     ELSE IF ts[k].id = blankTileId
          THEN [ts[k] EXCEPT !.currentPosition = clickedTile.currentPosition]
          ELSE ts[k]]

\* faulty variant: the blank's own cell counts as a valid move
acceptsOwnCell(ts, clickedTile) ==
  LET blankTile == find(ts, blankTileId)
      validMoves == <<blankTile.currentPosition>>
                      \o getValidMoves(blankTile.currentPosition, gridSize)
  IN includes(validMoves, clickedTile.currentPosition)

\* faulty variant: the clicked tile's id is tested, not its cell
acceptsById(ts, clickedTile) ==
  LET blankTile == find(ts, blankTileId)
      validMoves == getValidMoves(blankTile.currentPosition, gridSize)
  IN includes(validMoves, clickedTile.id)

\* the condition of handleTileClick: validMoves.includes(clickedTile.currentPosition)
accepts(ts, clickedTile) ==
  LET blankTile == find(ts, blankTileId)
      validMoves == getValidMoves(blankTile.currentPosition, gridSize)
  IN includes(validMoves, clickedTile.currentPosition)

\* faulty variant: blankPos is not advanced to the chosen cell
shuffleIterationNoTrack(sh, bp, randomMove) ==
  LET blankIndex == findIndex(sh, bp)
      tileIndex == findIndex(sh, randomMove)
  IN [shuffled |-> [[sh EXCEPT ![blankIndex + 1].currentPosition = randomMove]
                        EXCEPT ![tileIndex + 1].currentPosition = bp],
      blankPos |-> bp]

\* the body of the for loop of shufflePuzzle after randomMove is drawn; both
\* findIndex calls have found a tile
shuffleIteration(sh, bp, randomMove) ==
  LET blankIndex == findIndex(sh, bp)
      tileIndex == findIndex(sh, randomMove)
  IN [shuffled |-> [[sh EXCEPT ![blankIndex + 1].currentPosition = randomMove]
                        EXCEPT ![tileIndex + 1].currentPosition = bp],
      blankPos |-> randomMove]

\* faulty variant: the updater adds two
incMovesTwice(m) == m + 2

\* SlidingPuzzle: setMoves(m => m + 1)
incMoves(m) == m + 1

pre == [tiles |-> tiles, isSolved |-> isSolved, moves |-> moves, stage |-> stage,
        noClickCount |-> noClickCount, timers |-> timers]

NoLocals == shuffled = <<>> /\ blankPos = 0 /\ i = 0

(* ------------------------------- Init ---------------------------------- *)
Init ==
  /\ component \in {"VE", "SP"}
  /\ gridSize \in GridSizes
  /\ mounted = FALSE
  /\ tiles = <<>>
  /\ isSolved = FALSE
  /\ stage = "envelope"
  /\ envelopeOpened = FALSE
  /\ noClickCount = 0
  /\ timers = <<>>
  /\ moves = 0
  /\ hasStarted = FALSE
  /\ pc = "idle"
  /\ caller = "none"
  /\ NoLocals
  /\ last = [op |-> "none", tile |-> -1, accepted |-> FALSE, pre |-> pre]
  /\ arg = <<>>
  /\ ret = <<>>
  /\ acceptedMoves = [sinceInit |-> 0, sinceReset |-> 0]

(* ------------------ initializePuzzle / shufflePuzzle ------------------- *)
\* faulty variant: the shuffle starts on the board of the previous session
BeginInitKeepBoard(who) ==
  /\ pc = "idle"
  /\ pc' = "shuffle"
  /\ caller' = who
  /\ shuffled' = IF tiles = <<>> THEN initialTiles ELSE tiles
  /\ blankPos' = blankTileId
  /\ i' = 0
  /\ last' = [op |-> who, tile |-> -1, accepted |-> FALSE, pre |-> pre]
  /\ UNCHANGED <<component, gridSize, mounted, tiles, isSolved, stage,
                 envelopeOpened, noClickCount, timers, moves, hasStarted, arg, ret,
                 acceptedMoves>>

\* initializePuzzle is entered by `who`: initialTiles is built and
\* shufflePuzzle starts on it.
BeginInit(who) ==
  /\ pc = "idle"
  /\ pc' = "shuffle"
  /\ caller' = who
  /\ shuffled' = initialTiles
  /\ blankPos' = blankTileId
  /\ i' = 0
  /\ last' = [op |-> who, tile |-> -1, accepted |-> FALSE, pre |-> pre]
  /\ UNCHANGED <<component, gridSize, mounted, tiles, isSolved, stage,
                 envelopeOpened, noClickCount, timers, moves, hasStarted, arg, ret,
                 acceptedMoves>>

\* one iteration of the for loop of shufflePuzzle
ShuffleStep ==
  /\ pc = "shuffle"
  /\ i < ShuffleSteps
  /\ LET validMoves == getValidMoves(blankPos, gridSize) IN
     \E r \in 0..(Len(validMoves) - 1) :
       LET randomMove == validMoves[r + 1] IN
       \* shuffled[-1] is undefined: setting its currentPosition throws
       IF findIndex(shuffled, blankPos) = -1 \/ findIndex(shuffled, randomMove) = -1
       THEN /\ pc' = "threw"
            /\ UNCHANGED <<shuffled, blankPos, i>>
       ELSE LET next == shuffleIteration(shuffled, blankPos, randomMove) IN
            /\ shuffled' = next.shuffled
            /\ blankPos' = next.blankPos
            /\ i' = i + 1
            /\ pc' = pc
  /\ UNCHANGED <<component, gridSize, mounted, tiles, isSolved, stage,
                 envelopeOpened, noClickCount, timers, moves, hasStarted,
                 caller, last, arg, ret, acceptedMoves>>

\* the loop is over: shufflePuzzle returns, initializePuzzle sets its state and
\* the calling handler's own updates are committed with it
EndInit ==
  /\ pc = "shuffle"
  /\ i = ShuffleSteps
  /\ tiles' = shuffled
  /\ isSolved' = FALSE
  /\ moves' = 0
  /\ mounted' = TRUE
  /\ stage' = IF caller = "handleStartPuzzle" THEN "puzzle" ELSE stage
  /\ hasStarted' = IF caller = "handleStart" THEN TRUE ELSE hasStarted
  /\ pc' = "idle"
  /\ caller' = "none"
  /\ shuffled' = <<>>
  /\ blankPos' = 0
  /\ i' = 0
  /\ acceptedMoves' = [sinceInit |-> 0, sinceReset |-> 0]
  /\ UNCHANGED <<component, gridSize, envelopeOpened, noClickCount, timers,
                 last, arg, ret>>

\* useEffect(() => { initializePuzzle(); }, [])
Mount ==
  /\ ~mounted
  /\ BeginInit("mount")

(* ------------------------- handleTileClick ----------------------------- *)
\* onClick={() => handleTileClick(tile)} on the rendered tile with id k:
\* VE renders the tiles in stage 'puzzle', SP when hasStarted
HandleTileClick(k) ==
  /\ pc = "idle"
  /\ mounted
  /\ \/ component = "VE" /\ stage = "puzzle"
     \/ component = "SP" /\ hasStarted /\ moves < MaxMoves
  /\ k \in 0..(Len(tiles) - 1)
  /\ LET clickedTile == tiles[k + 1] IN
     IF isSolved
     THEN /\ last' = [op |-> "handleTileClick", tile |-> clickedTile.id,
                      accepted |-> FALSE, pre |-> pre]
          /\ UNCHANGED <<tiles, isSolved, moves, timers>>
     ELSE LET blankTile == find(tiles, blankTileId)
          IN IF accepts(tiles, clickedTile)
             THEN LET newTiles == swapTiles(tiles, clickedTile, blankTile)
                      solved == every(newTiles)
                  IN /\ tiles' = newTiles
                     /\ moves' = IF component = "SP" THEN incMoves(moves) ELSE moves
                     /\ isSolved' = IF solved THEN TRUE ELSE isSolved
                     /\ timers' = IF solved /\ component = "VE"
                                  THEN Append(timers, "message") ELSE timers
                     /\ last' = [op |-> "handleTileClick", tile |-> clickedTile.id,
                                 accepted |-> TRUE, pre |-> pre]
             ELSE /\ last' = [op |-> "handleTileClick", tile |-> clickedTile.id,
                              accepted |-> FALSE, pre |-> pre]
                  /\ UNCHANGED <<tiles, isSolved, moves, timers>>
  /\ acceptedMoves' =
       IF component = "SP" /\ last'.accepted
       THEN [sinceInit |-> acceptedMoves.sinceInit + 1,
             sinceReset |-> acceptedMoves.sinceReset + 1]
       ELSE acceptedMoves
  /\ UNCHANGED <<component, gridSize, mounted, stage, envelopeOpened, noClickCount,
                 hasStarted, pc, caller, shuffled, blankPos, i, arg, ret>>

(* ------------------------ ValentineExperience -------------------------- *)
\* the envelope is rendered, and clickable, while stage is 'envelope'
HandleEnvelopeClick ==
  /\ pc = "idle"
  /\ mounted
  /\ component = "VE"
  /\ stage = "envelope"
  /\ Len(timers) < MaxPendingTimers
  /\ envelopeOpened' = TRUE
  /\ timers' = Append(timers, "preview")
  /\ last' = [op |-> "handleEnvelopeClick", tile |-> -1, accepted |-> FALSE, pre |-> pre]
  /\ UNCHANGED <<component, gridSize, mounted, tiles, isSolved, stage, noClickCount,
                 moves, hasStarted, pc, caller, shuffled, blankPos, i, arg, ret,
                 acceptedMoves>>

\* faulty variant: the callback set by checkIfSolved also runs setStage('preview')
TimerFiresPreviewOnly ==
  /\ pc = "idle"
  /\ timers # <<>>
  /\ stage' = "preview"
  /\ timers' = Tail(timers)
  /\ last' = [op |-> "timer", tile |-> -1, accepted |-> FALSE, pre |-> pre]
  /\ UNCHANGED <<component, gridSize, mounted, tiles, isSolved, envelopeOpened,
                 noClickCount, moves, hasStarted, pc, caller, shuffled, blankPos, i,
                 arg, ret, acceptedMoves>>

\* the oldest pending setTimeout callback runs: timers of equal delay run in the
\* order they were set
TimerFires ==
  /\ pc = "idle"
  /\ timers # <<>>
  /\ stage' = Head(timers)
  /\ timers' = Tail(timers)
  /\ last' = [op |-> "timer", tile |-> -1, accepted |-> FALSE, pre |-> pre]
  /\ UNCHANGED <<component, gridSize, mounted, tiles, isSolved, envelopeOpened,
                 noClickCount, moves, hasStarted, pc, caller, shuffled, blankPos, i,
                 arg, ret, acceptedMoves>>

\* the Start Puzzle button of stage 'preview'
HandleStartPuzzle ==
  /\ mounted
  /\ component = "VE"
  /\ stage = "preview"
  /\ BeginInit("handleStartPuzzle")

\* the Continue button of stage 'message': onClick={() => setStage('question')}
ContinueClick ==
  /\ pc = "idle"
  /\ mounted
  /\ component = "VE"
  /\ stage = "message"
  /\ stage' = "question"
  /\ last' = [op |-> "continue", tile |-> -1, accepted |-> FALSE, pre |-> pre]
  /\ UNCHANGED <<component, gridSize, mounted, tiles, isSolved, envelopeOpened,
                 noClickCount, timers, moves, hasStarted, pc, caller, shuffled,
                 blankPos, i, arg, ret, acceptedMoves>>

\* faulty variant: the No button runs setStage('final') as the Yes button does
HandleNoClickAdvances ==
  /\ pc = "idle"
  /\ mounted
  /\ component = "VE"
  /\ stage = "question"
  /\ noClickCount < MaxNoClicks
  /\ noClickCount' = noClickCount + 1
  /\ stage' = "final"
  /\ last' = [op |-> "handleNoClick", tile |-> -1, accepted |-> FALSE, pre |-> pre]
  /\ UNCHANGED <<component, gridSize, mounted, tiles, isSolved, envelopeOpened,
                 timers, moves, hasStarted, pc, caller, shuffled, blankPos, i, arg, ret,
                 acceptedMoves>>

\* the No button of stage 'question' (its position and scale are not modelled)
HandleNoClick ==
  /\ pc = "idle"
  /\ mounted
  /\ component = "VE"
  /\ stage = "question"
  /\ noClickCount < MaxNoClicks
  /\ noClickCount' = noClickCount + 1
  /\ last' = [op |-> "handleNoClick", tile |-> -1, accepted |-> FALSE, pre |-> pre]
  /\ UNCHANGED <<component, gridSize, mounted, tiles, isSolved, stage, envelopeOpened,
                 timers, moves, hasStarted, pc, caller, shuffled, blankPos, i, arg, ret,
                 acceptedMoves>>

\* the Yes button of stage 'question' (the confetti interval sets no state)
HandleYesClick ==
  /\ pc = "idle"
  /\ mounted
  /\ component = "VE"
  /\ stage = "question"
  /\ stage' = "final"
  /\ last' = [op |-> "handleYesClick", tile |-> -1, accepted |-> FALSE, pre |-> pre]
  /\ UNCHANGED <<component, gridSize, mounted, tiles, isSolved, envelopeOpened,
                 noClickCount, timers, moves, hasStarted, pc, caller, shuffled,
                 blankPos, i, arg, ret, acceptedMoves>>

(* --------------------------- SlidingPuzzle ----------------------------- *)
\* the Start Puzzle button, rendered while !hasStarted
HandleStart ==
  /\ mounted
  /\ component = "SP"
  /\ ~hasStarted
  /\ BeginInit("handleStart")

\* the Reset and Play Again buttons, rendered while hasStarted
HandleReset ==
  /\ pc = "idle"
  /\ mounted
  /\ component = "SP"
  /\ hasStarted
  /\ hasStarted' = FALSE
  /\ isSolved' = FALSE
  /\ moves' = 0
  /\ last' = [op |-> "handleReset", tile |-> -1, accepted |-> FALSE, pre |-> pre]
  /\ acceptedMoves' = [acceptedMoves EXCEPT !.sinceReset = 0]
  /\ UNCHANGED <<component, gridSize, mounted, tiles, stage, envelopeOpened,
                 noClickCount, timers, pc, caller, shuffled, blankPos, i, arg, ret>>

Next ==
  \/ Mount
  \/ ShuffleStep
  \/ EndInit
  \/ \E k \in 0..(totalTiles - 1) : HandleTileClick(k)
  \/ HandleEnvelopeClick
  \/ TimerFires
  \/ HandleStartPuzzle
  \/ ContinueClick
  \/ HandleNoClick
  \/ HandleYesClick
  \/ HandleStart
  \/ HandleReset

Spec == Init /\ [][Next]_vars

\* A handler that has started runs to its end (the shuffle loop and the
\* commit of initializePuzzle), and a pending timer callback runs once no
\* handler is running.
LiveSpec ==
  /\ Spec
  /\ WF_vars(ShuffleStep)
  /\ WF_vars(EndInit)
  /\ WF_vars(TimerFires)

(* ----------------------- getValidMoves on its own ---------------------- *)
InitMoves ==
  /\ component = "VE"
  /\ gridSize = 2
  /\ mounted = FALSE
  /\ tiles = <<>>
  /\ isSolved = FALSE
  /\ stage = "envelope"
  /\ envelopeOpened = FALSE
  /\ noClickCount = 0
  /\ timers = <<>>
  /\ moves = 0
  /\ hasStarted = FALSE
  /\ pc = "idle"
  /\ caller = "none"
  /\ NoLocals
  /\ last = [op |-> "none", tile |-> -1, accepted |-> FALSE, pre |-> pre]
  /\ \E N \in 2..MaxMovesGrid : \E position \in 0..(N * N - 1) :
       arg = <<position, N>>
  /\ ret = <<>>
  /\ acceptedMoves = [sinceInit |-> 0, sinceReset |-> 0]

CallGetValidMoves ==
  /\ last.op = "none"
  /\ ret' = getValidMoves(arg[1], arg[2])
  /\ last' = [last EXCEPT !.op = "getValidMoves"]
  /\ UNCHANGED <<component, gridSize, mounted, tiles, isSolved, stage, envelopeOpened,
                 noClickCount, timers, moves, hasStarted, pc, caller, shuffled,
                 blankPos, i, arg, acceptedMoves>>

SpecMoves == InitMoves /\ [][CallGetValidMoves]_vars

(* ====================== properties of the program ====================== *)
InitOps == {"mount", "handleStartPuzzle", "handleStart"}

\* initializePuzzle has just returned
AfterInit == pc = "idle" /\ last.op \in InitOps

\* handleTileClick has just run
AfterClick == pc = "idle" /\ last.op = "handleTileClick"

\* the cell of the tile with id `id` on board ts
CellOf(ts, id) == find(ts, id).currentPosition

\* every cell 0..N*N-1 is occupied by exactly one of the N*N tiles
IsPermutation(ts) ==
  /\ Len(ts) = totalTiles
  /\ \A c \in 0..(totalTiles - 1) :
       Cardinality({k \in 1..Len(ts) : ts[k].currentPosition = c}) = 1

\* C1: after initializePuzzle, after every tile click and after every step of
\* the shuffle loop, the currentPosition values of the N*N tiles are exactly
\* the cells 0..N*N-1, each occupied by exactly one tile.
C1_Permutation ==
  /\ (mounted /\ pc = "idle") => IsPermutation(tiles)
  /\ pc = "shuffle" => IsPermutation(shuffled)

\* an accepted click has moved a tile of a shuffled board
C1_Witness ==
  /\ AfterClick
  /\ last.accepted
  /\ tiles # last.pre.tiles
  /\ IsPermutation(tiles)

\* the boards one accepted click away from board b
LegalMoves(b) ==
  {swapTiles(b, b[k], find(b, blankTileId)) :
     k \in {j \in 1..Len(b) : accepts(b, b[j])}}

RECURSIVE ReachableFrom(_)
\* the boards reachable from the boards of S by accepted clicks
ReachableFrom(S) ==
  LET T == S \cup UNION {LegalMoves(b) : b \in S}
  IN IF T = S THEN S ELSE ReachableFrom(T)

\* C2: every board initializePuzzle produces is reachable from the identity
\* arrangement by legal moves, and a finite sequence of accepted clicks
\* brings it back to the identity arrangement.
C2_Solvable ==
  AfterInit =>
    /\ tiles \in ReachableFrom({initialTiles})
    /\ initialTiles \in ReachableFrom({tiles})

\* initializePuzzle has returned a board that is not the identity arrangement
C2_Witness ==
  /\ AfterInit
  /\ ~every(tiles)
  /\ initialTiles \in ReachableFrom({tiles})

Abs(x) == IF x < 0 THEN -x ELSE x

\* q is a cell of the N x N grid one orthogonal step from cell p
Adjacent(p, q, N) ==
  /\ q \in 0..(N * N - 1)
  /\ Abs((p \div N) - (q \div N)) + Abs((p % N) - (q % N)) = 1

\* up, down, left, right in the order of the returned list
DirRank(d, N) ==
  IF d = -N THEN 1 ELSE IF d = N THEN 2 ELSE IF d = -1 THEN 3 ELSE IF d = 1 THEN 4 ELSE 0

\* C3: getValidMoves(position, N) is the list, in the order up, down, left,
\* right, of position-N iff row > 0, position+N iff row < N-1, position-1 iff
\* col > 0, position+1 iff col < N-1; every returned cell is a cell of the
\* grid one orthogonal step away (no wrap across a row boundary); for N = 3
\* the results for 0, 4 and 8 are [3,1], [1,7,3,5] and [5,7].
C3_GetValidMoves ==
  last.op = "getValidMoves" =>
    LET p == arg[1]
        N == arg[2]
        row == p \div N
        col == p % N
    IN /\ \A k \in 1..Len(ret) : Adjacent(p, ret[k], N)
       /\ \A q \in 0..(N * N - 1) : Adjacent(p, q, N) => includes(ret, q)
       /\ \A j, k \in 1..Len(ret) :
            j < k => /\ DirRank(ret[j] - p, N) > 0
                     /\ DirRank(ret[j] - p, N) < DirRank(ret[k] - p, N)
       /\ includes(ret, p - N) <=> row > 0
       /\ includes(ret, p + N) <=> row < N - 1
       /\ includes(ret, p - 1) <=> col > 0
       /\ includes(ret, p + 1) <=> col < N - 1
       /\ Len(ret) = Cardinality({d \in {-N, N, -1, 1} : includes(ret, p + d)})
       /\ arg = <<0, 3>> => ret = <<3, 1>>
       /\ arg = <<4, 3>> => ret = <<1, 7, 3, 5>>
       /\ arg = <<8, 3>> => ret = <<5, 7>>

\* getValidMoves has returned the four neighbours of the centre of the 3 x 3 grid
C3_Witness ==
  /\ last.op = "getValidMoves"
  /\ arg = <<4, 3>>
  /\ ret = <<1, 7, 3, 5>>

\* the click just handled was on a tile in a cell of getValidMoves(blank's cell)
ClickedAdjacent ==
  includes(getValidMoves(CellOf(last.pre.tiles, blankTileId), gridSize),
           CellOf(last.pre.tiles, last.tile))

\* C4: a click, on a board that is not locked, on a tile T in a cell of
\* getValidMoves(blank's cell) puts the blank in T's former cell and T in the
\* blank's former cell; every other tile keeps its currentPosition and
\* exactly two tiles change.
C4_SwapCorrectness ==
  (AfterClick /\ ~last.pre.isSolved /\ ClickedAdjacent) =>
    LET P == last.pre.tiles
        T == last.tile
    IN /\ Len(tiles) = Len(P)
       /\ CellOf(tiles, blankTileId) = CellOf(P, T)
       /\ CellOf(tiles, T) = CellOf(P, blankTileId)
       /\ \A k \in 1..Len(P) : P[k].id \notin {T, blankTileId} => tiles[k] = P[k]
       /\ Cardinality({k \in 1..Len(P) : tiles[k] # P[k]}) = 2

\* an adjacent tile was clicked on an unlocked board and has changed cell
C4_Witness ==
  /\ AfterClick
  /\ ~last.pre.isSolved
  /\ ClickedAdjacent
  /\ CellOf(tiles, last.tile) # CellOf(last.pre.tiles, last.tile)

\* C5: a click on a tile whose cell is not in getValidMoves(blank's cell)
\* leaves every tile's currentPosition, the solved flag, the move counter and
\* the stage unchanged (no timer is set), and an unsolved board is still
\* reported as not solved.
C5_NonAdjacentNoOp ==
  (AfterClick /\ ~ClickedAdjacent) =>
    /\ tiles = last.pre.tiles
    /\ isSolved = last.pre.isSolved
    /\ moves = last.pre.moves
    /\ stage = last.pre.stage
    /\ timers = last.pre.timers
    /\ ~every(tiles) => ~isSolved

\* a tile other than the blank, not next to the blank, was clicked on an
\* unsolved board
C5_Witness ==
  /\ AfterClick
  /\ ~ClickedAdjacent
  /\ last.tile # blankTileId
  /\ ~every(tiles)
  /\ ~isSolved
  /\ tiles = last.pre.tiles

\* C6: once the board is in the solved arrangement, any tile click leaves the
\* board unchanged and the puzzle is still reported as solved, a board that
\* initializePuzzle returns in the identity arrangement included.
C6_LockAfterSolve ==
  (AfterClick /\ every(last.pre.tiles)) =>
    /\ tiles = last.pre.tiles
    /\ isSolved

\* C7: after initialization the solved flag is true if and only if every
\* tile's currentPosition equals its id.
C7_SolvedIffBoardSolved ==
  (mounted /\ pc = "idle") => (isSolved <=> every(tiles))

\* C8: stage is message, question or final only if the board is in the
\* solved arrangement and the solved flag is true.
C8_NarrativeGated ==
  stage \in {"message", "question", "final"} => (every(tiles) /\ isSolved)

StageSteps ==
  {<<"envelope", "preview">>, <<"preview", "puzzle">>, <<"puzzle", "message">>,
   <<"message", "question">>, <<"question", "final">>}

\* C9: every change of stage is one step forward along envelope -> preview ->
\* puzzle -> message -> question -> final.
C9_StageOrder ==
  [][stage' # stage => <<stage, stage'>> \in StageSteps]_vars

\* the <<shuffled, blankPos>> pairs one iteration of the shuffle loop can
\* leave, started in one of the pairs of S
ShuffleImage(S) ==
  UNION {{LET next == shuffleIteration(s[1], s[2], m)
          IN <<next.shuffled, next.blankPos>> :
            m \in Range(getValidMoves(s[2], gridSize))} : s \in S}

RECURSIVE ShuffleOutcomes(_, _)
\* the pairs n iterations can leave (n is halved to keep the evaluation shallow)
ShuffleOutcomes(S, n) ==
  IF n = 0 \/ S = {} THEN S
  ELSE IF n % 2 = 1 THEN ShuffleImage(ShuffleOutcomes(S, n - 1))
       ELSE LET half == ShuffleOutcomes(S, n \div 2)
            IN ShuffleOutcomes(half, n \div 2)

\* C10: whatever the previous board, solved flag and move counter, the shuffle
\* of initializePuzzle starts on a fresh identity board with the blank at its
\* home cell, and after initializePuzzle the solved flag is false, the move
\* counter is 0 and the board is one of the outcomes of shuffling the
\* identity board.
C10_InitReplacesSession ==
  /\ (pc = "shuffle" /\ i = 0) =>
       /\ shuffled = initialTiles
       /\ blankPos = blankTileId
  /\ AfterInit =>
       /\ isSolved = FALSE
       /\ moves = 0
       /\ tiles \in {s[1] : s \in ShuffleOutcomes({<<initialTiles, blankTileId>>},
                                                 ShuffleSteps)}

\* initializePuzzle has replaced a session whose board was shuffled and whose
\* solved flag was set
C10_Witness ==
  /\ AfterInit
  /\ last.pre.isSolved
  /\ last.pre.tiles # <<>>
  /\ ~isSolved
  /\ tiles # last.pre.tiles

\* what handleTileClick does to the move counter of SlidingPuzzle, and what
\* decides whether a click is accepted
MoveCounterSteps ==
  /\ (AfterClick /\ component = "SP") =>
       /\ last.accepted => moves = last.pre.moves + 1
       /\ ~last.accepted => moves = last.pre.moves
  /\ AfterClick => (last.accepted <=> (~last.pre.isSolved /\ ClickedAdjacent))

\* C11 (as stated): every accepted move adds one to the move counter, every
\* ignored click leaves it unchanged, at all times the counter equals the
\* number of accepted moves since the last initializePuzzle, and acceptance
\* depends on the solved flag and the clicked cell only.
C11_MoveCounterSinceInit ==
  /\ MoveCounterSteps
  /\ component = "SP" => moves = acceptedMoves.sinceInit

\* C11 (amended): as stated, except that the counter equals the number of
\* accepted moves since the last initializePuzzle or handleReset.
C11_MoveCounter ==
  /\ MoveCounterSteps
  /\ component = "SP" => moves = acceptedMoves.sinceReset

\* SlidingPuzzle has counted two accepted moves, the last click being ignored
C11_Witness ==
  /\ component = "SP"
  /\ AfterClick
  /\ ~last.accepted
  /\ moves = 2
  /\ acceptedMoves.sinceReset = 2

\* C12: getValidMoves(p, N) returns exactly 2 distinct cells for the 4 corner
\* cells, 3 for an edge cell that is not a corner and 4 for an interior cell;
\* it is never empty.
C12_AdjacencyCount ==
  last.op = "getValidMoves" =>
    LET p == arg[1]
        N == arg[2]
        onRowEdge == (p \div N) \in {0, N - 1}
        onColEdge == (p % N) \in {0, N - 1}
    IN /\ Cardinality(Range(ret)) = Len(ret)
       /\ (onRowEdge /\ onColEdge) => Len(ret) = 2
       /\ (onRowEdge /\ ~onColEdge) => Len(ret) = 3
       /\ (~onRowEdge /\ onColEdge) => Len(ret) = 3
       /\ (~onRowEdge /\ ~onColEdge) => Len(ret) = 4
       /\ Len(ret) > 0
       /\ Cardinality({c \in 0..(N * N - 1) :
                         (c \div N) \in {0, N - 1} /\ (c % N) \in {0, N - 1}}) = 4

\* getValidMoves has returned three cells for an edge cell of the 4 x 4 grid
C12_Witness ==
  /\ last.op = "getValidMoves"
  /\ arg = <<7, 4>>
  /\ Len(ret) = 3

\* an accepted move has just put the board of ValentineExperience into the
\* solved arrangement during the puzzle stage
SolvingMove ==
  /\ component = "VE"
  /\ AfterClick
  /\ last.accepted
  /\ last.pre.stage = "puzzle"
  /\ tiles = initialTiles

\* C13: an accepted move that solves the board during the puzzle stage sets
\* the solved flag in the same step (and sets the message timer), and, the
\* pending timer callbacks running eventually, the stage becomes message.
C13_SolvedLeadsToMessage ==
  /\ [](SolvingMove => (isSolved /\ includes(timers, "message")))
  /\ SolvingMove ~> (stage = "message")

\* the solving move has been made and the message timer is pending
C13_Witness ==
  /\ SolvingMove
  /\ isSolved
  /\ stage = "puzzle"
  /\ timers # <<>>

\* C14: in ValentineExperience the board and the solved flag are created or
\* changed only while stage is puzzle or in the step that enters it.
C14_EngineOnlyInPuzzle ==
  [][(component = "VE" /\ (tiles' # tiles \/ isSolved' # isSolved))
       => (stage = "puzzle" \/ stage' = "puzzle")]_vars

\* the array holds N*N tiles and its element k (from 0) is the tile with id k
IdsFixed(ts) ==
  /\ Len(ts) = totalTiles
  /\ \A k \in 1..Len(ts) : ts[k].id = k - 1
  /\ {ts[k].id : k \in 1..Len(ts)} = 0..(totalTiles - 1)

\* C15: after initializePuzzle the board holds exactly N*N tiles with the ids
\* 0..N*N-1, each once; neither the shuffle nor a tile click changes a tile's
\* id, adds a tile or removes one; the tile with id N*N-1 (the blank) exists.
C15_TileIdsFixed ==
  /\ (mounted /\ pc = "idle") =>
       /\ IdsFixed(tiles)
       /\ Cardinality({k \in 1..Len(tiles) : tiles[k].id = blankTileId}) = 1
  /\ pc = "shuffle" => IdsFixed(shuffled)
  /\ AfterClick =>
       /\ Len(tiles) = Len(last.pre.tiles)
       /\ \A k \in 1..Len(tiles) : tiles[k].id = last.pre.tiles[k].id

\* a tile has left its home cell by an accepted click and keeps its id
C15_Witness ==
  /\ AfterClick
  /\ last.accepted
  /\ IdsFixed(tiles)
  /\ CellOf(tiles, last.tile) # last.tile

\* (row + col) mod 2 of cell c
CellParity(c) == ((c \div gridSize) + (c % gridSize)) % 2

C17_UndoByReclick ==
  /\ [](\A p, q \in 0..(totalTiles - 1) :
          includes(getValidMoves(p, gridSize), q)
            <=> includes(getValidMoves(q, gridSize), p))
  /\ [][(AfterClick /\ last.accepted /\ ~isSolved /\ HandleTileClick(last.tile))
          => (last'.accepted /\ last'.tile = last.tile /\ tiles' = last.pre.tiles)]_vars

\* a click on T was accepted, the board it left is not solved and T can be
\* clicked again
C17_Witness ==
  /\ component = "VE"
  /\ stage = "puzzle"
  /\ AfterClick
  /\ last.accepted
  /\ ~isSolved
  /\ tiles # last.pre.tiles
  /\ accepts(tiles, find(tiles, last.tile))

\* C18: a cell is never in getValidMoves of itself, so a click on the tile
\* with id N*N-1 is not accepted and leaves the board, the solved flag, the
\* move counter and the stage unchanged (no timer is set).
C18_BlankClickNoOp ==
  /\ \A p \in 0..(totalTiles - 1) : ~includes(getValidMoves(p, gridSize), p)
  /\ (AfterClick /\ last.tile = blankTileId) =>
       /\ ~last.accepted
       /\ tiles = last.pre.tiles
       /\ isSolved = last.pre.isSolved
       /\ moves = last.pre.moves
       /\ stage = last.pre.stage
       /\ timers = last.pre.timers

\* the blank was clicked on an unsolved, unlocked board of SlidingPuzzle
C18_Witness ==
  /\ component = "SP"
  /\ AfterClick
  /\ last.tile = blankTileId
  /\ ~last.pre.isSolved
  /\ ~every(tiles)
  /\ moves = last.pre.moves

\* C19: every handleNoClick is taken in stage question and leaves the stage
\* at question and the board and the solved flag unchanged, and adds exactly
\* one to noClickCount; a step that sets stage to final is a Yes click taken
\* in the question stage.
C19_NoNeverAdvances ==
  /\ [](last.op = "handleNoClick" =>
          /\ last.pre.stage = "question"
          /\ stage = "question"
          /\ tiles = last.pre.tiles
          /\ isSolved = last.pre.isSolved
          /\ noClickCount = last.pre.noClickCount + 1)
  /\ [][(stage' = "final" /\ stage # "final")
          => (stage = "question" /\ last'.op = "handleYesClick")]_vars

\* the No button has been clicked twice and the stage is still question
C19_Witness ==
  /\ last.op = "handleNoClick"
  /\ noClickCount = 2
  /\ stage = "question"

\* C20: at the start of every shuffle iteration blankPos is the
\* currentPosition of the tile with id N*N-1, so the tile findIndex finds at
\* blankPos is the blank; for every cell the draw can choose, the two tiles
\* found are distinct existing tiles and the iteration is a legal swap of the
\* blank with an orthogonally adjacent tile; the loop never throws.
C20_ShuffleBlankTracking ==
  /\ pc # "threw"
  /\ pc = "shuffle" =>
       /\ blankPos = CellOf(shuffled, blankTileId)
       /\ shuffled[findIndex(shuffled, blankPos) + 1].id = blankTileId
       /\ i < ShuffleSteps =>
            \A randomMove \in Range(getValidMoves(blankPos, gridSize)) :
              LET blankIndex == findIndex(shuffled, blankPos)
                  tileIndex == findIndex(shuffled, randomMove)
                  next == shuffleIteration(shuffled, blankPos, randomMove)
              IN /\ blankIndex \in 0..(Len(shuffled) - 1)
                 /\ tileIndex \in 0..(Len(shuffled) - 1)
                 /\ blankIndex # tileIndex
                 /\ Adjacent(blankPos, randomMove, gridSize)
                 /\ next.shuffled \in LegalMoves(shuffled)
                 /\ next.blankPos = CellOf(next.shuffled, blankTileId)

\* the loop is under way with the blank away from its home cell
C20_Witness ==
  /\ pc = "shuffle"
  /\ i = 57
  /\ blankPos # blankTileId
  /\ blankPos = CellOf(shuffled, blankTileId)
====
